---- MODULE Spec2Model ----
(***************************************************************************)
(* A model of ntfs.py: the FILETIME <-> datetime codec (dt_to_filetime,    *)
(* filetime_to_dt) and the MFT scan of main(): the record loop, the        *)
(* attribute loop, the path tree, the timeline and its sorted output.      *)
(*                                                                         *)
(* Sizes and offsets inside the MFT are counted in cells: a cell is a run  *)
(* of bytes that holds one record header or one attribute header together  *)
(* with its content.  A record of `allocated` cells is one header cell     *)
(* followed by allocated-1 attribute cells.                                *)
(*                                                                         *)
(* Numbers wider than 31 bits are kept exactly, as pairs of limbs:         *)
(*   - a FILETIME of the codec is [hi, lo] = hi * 10^9 + lo, 0 <= lo < 10^9*)
(*   - a 32-bit attribute type code is <<high 16 bits, low 16 bits>>       *)
(*   - a 64-bit parent reference is <<high 32 bits, low 32 bits>>          *)
(***************************************************************************)
EXTENDS Integers, Sequences, FiniteSets, TLC

VARIABLES
    \* ---- the scan of main() ----
    command,      \* args.command: "dump" or "timeline"
    image,        \* the MFT region of the input file: a sequence of records
    pc,           \* "scan" | "attr" | "output" | "done" | "error"
    i,            \* offset of the current record slot, in cells
    type,         \* the variable `type`: a record signature, then attribute type codes
    attr_offset, flags, used, allocated, number,   \* unpacked at line 145
    is_inuse,     \* flags & 0x1 of the record header (line 157)
    pos,          \* cursor of `data` inside the record read at i, in cells
    tree,         \* the global dict tree: record number -> filename
    timeline,     \* the global list timeline: <<tick, description>>
    out,          \* the lines printed by the timeline output loop
    decoded,      \* history: record numbers whose $FILE_NAME has been decoded
    \* ---- the codec ----
    cpc,          \* "idle" | "roundtrip" | "decoded"
    dt,           \* a datetime given to dt_to_filetime
    ft_of_dt,     \* dt_to_filetime(dt)
    dt_back,      \* filetime_to_dt(ft_of_dt)
    ft_a, ft_b,   \* two tick values given to filetime_to_dt
    dt_a, dt_b    \* their datetimes

scanvars == <<command, image, pc, i, type, attr_offset, flags, used, allocated,
              number, is_inuse, pos, tree, timeline, out, decoded>>
codecvars == <<cpc, dt, ft_of_dt, dt_back, ft_a, ft_b, dt_a, dt_b>>
vars == <<scanvars, codecvars>>

-----------------------------------------------------------------------------
(* Bounds of the model *)

\* dates of the codec inputs range over -MaxDay..MaxDay days around 1970-01-01
MaxDay == 1
\* tick inputs range over -MaxSec..MaxSec whole seconds around the Unix epoch
MaxSec == 1
\* record numbers of the images range over 0..MaxNumber
MaxNumber == 2
\* tick values of the timeline images are 100, 200, .. MaxTick * 100
MaxTick == 3
\* attribute cells of the first record of the structural images
MaxCells == 3

-----------------------------------------------------------------------------
(* Wide integers of the codec *)

LIMB == 1000 * 1000 * 1000

\* hi * LIMB + lo, normalised to 0 <= lo < LIMB
Big(hi, lo) == [hi |-> hi + (lo \div LIMB), lo |-> lo % LIMB]

BigAdd(x, y) == Big(x.hi + y.hi, x.lo + y.lo)
BigSub(x, y) == Big(x.hi - y.hi, x.lo - y.lo)
BigLess(x, y) == x.hi < y.hi \/ (x.hi = y.hi /\ x.lo < y.lo)

\* line 37: EPOCH_AS_FILETIME = 116444736000000000
EPOCH_AS_FILETIME == [hi |-> 116444736, lo |-> 0]
\* line 38
HUNDREDS_OF_NANOSECONDS == 10000000

\* an int n times HUNDREDS_OF_NANOSECONDS, as a wide integer
TimesHNS(n) ==
    Big(n \div (LIMB \div HUNDREDS_OF_NANOSECONDS),
        (n % (LIMB \div HUNDREDS_OF_NANOSECONDS)) * HUNDREDS_OF_NANOSECONDS)

\* Python's divmod(x, HUNDREDS_OF_NANOSECONDS): floor quotient, remainder >= 0
DivModHNS(x) ==
    [q |-> x.hi * (LIMB \div HUNDREDS_OF_NANOSECONDS) + (x.lo \div HUNDREDS_OF_NANOSECONDS),
     r |-> x.lo % HUNDREDS_OF_NANOSECONDS]

-----------------------------------------------------------------------------
(* datetime: the date is kept as its day number relative to 1970-01-01     *)
(* (date.toordinal() - EPOCH_ORD), the time of day field by field.         *)

DateTime(d, h, m, s, us) ==
    [days |-> d, hour |-> h, minute |-> m, second |-> s, microsecond |-> us]

\* calendar.timegm(dt.timetuple()): the microsecond is not part of the tuple
timegm(t) == ((t.days * 24 + t.hour) * 60 + t.minute) * 60 + t.second

\* datetime.utcfromtimestamp(s) for an integer s
utcfromtimestamp(s) ==
    LET rem == s % 86400
    IN  DateTime(s \div 86400, rem \div 3600, (rem % 3600) \div 60, rem % 60, 0)

\* datetime's order: by date, then time of day, then microsecond
DtBefore(x, y) ==
    LET a == <<x.days, x.hour, x.minute, x.second, x.microsecond>>
        b == <<y.days, y.hour, y.minute, y.second, y.microsecond>>
    IN  \E k \in 1..5 : a[k] < b[k] /\ \A j \in 1..(k - 1) : a[j] = b[j]

\* a variant of dt_to_filetime: the microsecond added unscaled
dt_to_filetime_unscaled(t) ==
    BigAdd(BigAdd(EPOCH_AS_FILETIME, TimesHNS(timegm(t))), Big(0, t.microsecond))

\* lines 73-76 (a naive datetime is taken as UTC)
dt_to_filetime(t) ==
    BigAdd(BigAdd(EPOCH_AS_FILETIME, TimesHNS(timegm(t))), Big(0, t.microsecond * 10))

\* a variant of filetime_to_dt: the remainder taken modulo 10 instead of divided
filetime_to_dt_mod(x) ==
    LET sr == DivModHNS(BigSub(x, EPOCH_AS_FILETIME))
    IN  [utcfromtimestamp(sr.q) EXCEPT !.microsecond = sr.r % 10]

\* lines 93-98
filetime_to_dt(x) ==
    LET sr == DivModHNS(BigSub(x, EPOCH_AS_FILETIME))
    IN  [utcfromtimestamp(sr.q) EXCEPT !.microsecond = sr.r \div 10]

\* the datetimes and tick values the codec is run on
DtInputs ==
    { DateTime(d, h, m, s, us) :
        d \in (0 - MaxDay)..MaxDay, h \in {0, 23}, m \in {0, 59}, s \in {0, 59},
        us \in {0, 1, 999999} }

TickInputs ==
    { BigAdd(BigAdd(EPOCH_AS_FILETIME, TimesHNS(s)), Big(0, r)) :
        s \in (0 - MaxSec)..MaxSec, r \in {0, 1, 9, 10, 11, 9999999} }

CodecInit ==
    /\ cpc = "idle"
    /\ dt = DateTime(0, 0, 0, 0, 0)
    /\ ft_of_dt = EPOCH_AS_FILETIME
    /\ dt_back = DateTime(0, 0, 0, 0, 0)
    /\ ft_a = EPOCH_AS_FILETIME
    /\ ft_b = EPOCH_AS_FILETIME
    /\ dt_a = DateTime(0, 0, 0, 0, 0)
    /\ dt_b = DateTime(0, 0, 0, 0, 0)

\* filetime_to_dt(dt_to_filetime(t)) for an input t
RoundTrip ==
    /\ cpc = "idle"
    /\ \E t \in DtInputs :
        /\ dt' = t
        /\ ft_of_dt' = dt_to_filetime(t)
        /\ dt_back' = filetime_to_dt(dt_to_filetime(t))
    /\ cpc' = "roundtrip"
    /\ UNCHANGED <<ft_a, ft_b, dt_a, dt_b>>

\* filetime_to_dt on two tick values
DecodePair ==
    /\ cpc = "idle"
    /\ \E a \in TickInputs, b \in TickInputs :
        /\ ft_a' = a
        /\ ft_b' = b
        /\ dt_a' = filetime_to_dt(a)
        /\ dt_b' = filetime_to_dt(b)
    /\ cpc' = "decoded"
    /\ UNCHANGED <<dt, ft_of_dt, dt_back>>

-----------------------------------------------------------------------------
(* The input of the scan *)

\* a 32-bit attribute type code, as <<high 16 bits, low 16 bits>>
TypeCode(n) == <<0, n>>
STANDARD_INFORMATION == TypeCode(16)      \* 0x10
FILE_NAME == TypeCode(48)                 \* 0x30
OBJECT_ID == TypeCode(64)                 \* 0x40
DATA == TypeCode(128)                     \* 0x80
EA == TypeCode(224)                       \* 0xE0, not a key of attribute_types
TYPE_END == <<65535, 65535>>              \* 0xFFFFFFFF

\* lines 171-186: the keys of the dict attribute_types
attribute_types ==
    { TypeCode(16), TypeCode(32), TypeCode(48), TypeCode(64), TypeCode(80),
      TypeCode(96), TypeCode(112), TypeCode(128), TypeCode(144), TypeCode(160),
      TypeCode(176), TypeCode(192), TypeCode(256), TYPE_END }

\* record signatures: the 4 bytes unpacked as `4s`
SigFILE == <<"F", "I", "L", "E">>
SigBAAD == <<"B", "A", "A", "D">>
SigZero == <<"\\0", "\\0", "\\0", "\\0">>

\* str.rstrip(b'\x00')
RECURSIVE rstrip0(_)
rstrip0(s) ==
    IF s # <<>> /\ s[Len(s)] = "\\0" THEN rstrip0(SubSeq(s, 1, Len(s) - 1)) ELSE s

\* the bytes of one attribute cell, as the fields the code unpacks from them
Attr(t, len, form) ==
    [type |-> t, length |-> len, form_code |-> form, flags |-> 0,
     content_ok |-> TRUE,          \* the content slice is as long as the type's struct
     parent_directory |-> <<0, 0>>, \* <<high 32 bits, low 32 bits>>
     date_created |-> 0, date_modified |-> 0, date_mft_modified |-> 0,
     date_accessed |-> 0, fn_flags |-> 0, filename |-> <<>>]

\* a resident $FILE_NAME; its attribute flags have bit 0 set, its own flags
\* field is 0, whatever the record header's flags are
FileNameAttr(parent, name, dates, len) ==
    [Attr(FILE_NAME, len, 0) EXCEPT
        !.flags = 1, !.parent_directory = parent, !.filename = name,
        !.date_created = dates[1], !.date_modified = dates[2],
        !.date_mft_modified = dates[3], !.date_accessed = dates[4]]

\* the end marker: 0xFFFFFFFF followed by zero bytes
EndAttr == Attr(TYPE_END, 0, 0)

\* one record slot: the header fields of line 145 and the attribute cells
Record(sig, fl, us, num, cells) ==
    [type |-> sig, attr_offset |-> 1, flags |-> fl, used |-> us,
     allocated |-> Len(cells) + 1, number |-> num, attrs |-> cells]

\* a slot of zero bytes
ZeroSlot ==
    [type |-> SigZero, attr_offset |-> 0, flags |-> 0, used |-> 0,
     allocated |-> 0, number |-> 0, attrs |-> <<>>]

\* the cells a slot takes in the file
SlotSize(r) == Len(r.attrs) + 1

RECURSIVE StartOf(_, _)
StartOf(img, k) == IF k = 1 THEN 0 ELSE StartOf(img, k - 1) + SlotSize(img[k - 1])

\* the slots that start at offset off (none at the end of the file)
SlotsAt(img, off) == { k \in 1..Len(img) : StartOf(img, k) = off }
RecordAt(img, off) == img[CHOOSE k \in SlotsAt(img, off) : TRUE]

\* a parent reference with sequence number 1 in its high 16 bits
ParentRef(n) == <<65536, n>>

Ticks == { 100 * k : k \in 1..MaxTick }
Numbers == 0..MaxNumber

\* images for the structure of the scan: a first record of MaxCells attribute
\* cells, a second record, a zero slot
StructCells ==
    { EndAttr,
      FileNameAttr(ParentRef(MaxNumber), <<"a">>, <<100, 100, 100, 100>>, 1),
      Attr(EA, 1, 0),                                   \* type outside the table
      Attr(DATA, 0, 0),                                 \* length 0
      Attr(DATA, 2, 1),                                 \* non resident, two cells
      Attr(DATA, 1, 2),                                 \* form code neither 0 nor 1
      [Attr(STANDARD_INFORMATION, 1, 0) EXCEPT !.content_ok = FALSE] }

RECURSIVE SeqsOf(_, _)
SeqsOf(S, n) ==
    IF n = 0 THEN {<<>>}
    ELSE { Append(s, x) : s \in SeqsOf(S, n - 1), x \in S }

SecondRecord ==
    Record(SigFILE, 3, 3, MaxNumber,
           <<FileNameAttr(ParentRef(0), <<"b">>, <<200, 200, 200, 200>>, 1), EndAttr>>)

StructImages ==
    { <<Record(SigFILE, 1, us, 0, cells), SecondRecord, ZeroSlot>> :
        us \in 2..(MaxCells + 1), cells \in SeqsOf(StructCells, MaxCells) }
    \cup
    { <<r, SecondRecord, ZeroSlot>> :
        r \in { ZeroSlot, Record(SigBAAD, 1, 3, 0,
                    <<FileNameAttr(ParentRef(MaxNumber), <<"a">>, <<100, 100, 100, 100>>, 1),
                      EndAttr>>) } }
    \cup
    { <<SecondRecord>> }                                \* no zero slot before the end

\* images for the path tree: three records "a", "b", "c", each one $FILE_NAME;
\* "a" is a directory; "a" and "c" have one in-use bit, "b" the other
PathRecord(name, fl, num, par) ==
    Record(SigFILE, fl, 3, num,
           <<FileNameAttr(ParentRef(par), name, <<100, 100, 100, 100>>, 1), EndAttr>>)

PathImages ==
    { <<PathRecord(<<"a">>, 2 + fl, n[1], p[1]), PathRecord(<<"b">>, 1 - fl, n[2], p[2]),
        PathRecord(<<"c">>, fl, n[3], p[3]), ZeroSlot>> :
        fl \in {0, 1}, n \in SeqsOf(Numbers, 3), p \in SeqsOf(Numbers, 3) }

\* images for the timeline: three records, the dates of each drawn from Ticks
TimelineRecords(name, num) ==
    { Record(SigFILE, 1, 3, num,
             <<FileNameAttr(ParentRef(MaxNumber + 1), name, <<c, m, c, m>>, 1), EndAttr>>) :
        c \in Ticks, m \in Ticks }

TimelineImages ==
    { <<ra, rb, rc, ZeroSlot>> :
        ra \in TimelineRecords(<<"a">>, 0), rb \in TimelineRecords(<<"b">>, 1),
        rc \in TimelineRecords(<<"c">>, 2) }

-----------------------------------------------------------------------------
(* The pieces of the $FILE_NAME handling *)

\* a variant of InUseBit: the directory bit 0x2 tested instead of 0x1
InUseBitWrongMask(fl) == (fl \div 2) % 2

\* line 157: flags & 0x1
InUseBit(fl) == fl % 2

\* parent_directory & 0xFFFFFFFF
Mask32(p) == p[2]

\* a variant of TreePut: the name is not stored
TreePutNothing(tr, num, fname) == tr

\* line 226: tree[number] = filename
TreePut(tr, num, fname) ==
    [k \in (DOMAIN tr) \cup {num} |-> IF k = num THEN fname ELSE tr[k]]

\* lines 228-229
MarkDeleted(fname, inuse) == IF inuse = 0 THEN fname \o <<"*">> ELSE fname

\* lines 231-232
ResolvePath(tr, parent, fname) ==
    IF Mask32(parent) \in DOMAIN tr
    THEN tr[Mask32(parent)] \o <<"\\">> \o fname
    ELSE fname

\* lines 234-237
Entries(a, fname) ==
    << <<a.date_created, fname \o <<" created (0x30)">> >>,
       <<a.date_modified, fname \o <<" modified (0x30)">> >>,
       <<a.date_mft_modified, fname \o <<" mft modified (0x30)">> >>,
       <<a.date_accessed, fname \o <<" accessed (0x30)">> >> >>

\* a variant of InsertByKey: an entry goes before the entries of equal key
RECURSIVE InsertBeforeEqual(_, _)
InsertBeforeEqual(s, e) ==
    IF s = <<>> THEN <<e>>
    ELSE IF s[Len(s)][1] < e[1] THEN Append(s, e)
    ELSE Append(InsertBeforeEqual(SubSeq(s, 1, Len(s) - 1), e), s[Len(s)])

\* line 264: sorted(timeline, key=lambda t: t[0]); the sort is stable
RECURSIVE InsertByKey(_, _)
InsertByKey(s, e) ==
    IF s = <<>> THEN <<e>>
    ELSE IF s[Len(s)][1] <= e[1] THEN Append(s, e)
    ELSE Append(InsertByKey(SubSeq(s, 1, Len(s) - 1), e), s[Len(s)])

RECURSIVE sorted(_)
sorted(s) ==
    IF s = <<>> THEN <<>>
    ELSE InsertByKey(sorted(SubSeq(s, 1, Len(s) - 1)), s[Len(s)])

-----------------------------------------------------------------------------
(* The scan of main() *)

ScanStart ==
    /\ pc = "scan"
    /\ i = 0
    /\ type = <<>>
    /\ attr_offset = 0 /\ flags = 0 /\ used = 0 /\ allocated = 0 /\ number = 0
    /\ is_inuse = 0
    /\ pos = 0
    /\ tree = <<>>
    /\ timeline = <<>>
    /\ out = <<>>
    /\ decoded = {}

\* lines 139-169: read the header of the slot at i; leave the loop on an empty
\* signature, else read the record and enter the attribute loop
ReadRecord ==
    /\ pc = "scan"
    /\ IF SlotsAt(image, i) = {}
       THEN \* f.read(48) at the end of the file is too short for the struct
            /\ pc' = "error"
            /\ UNCHANGED <<type, attr_offset, flags, used, allocated, number,
                           is_inuse, pos>>
       ELSE LET r == RecordAt(image, i)
            IN  /\ type' = r.type
                /\ attr_offset' = r.attr_offset
                /\ flags' = r.flags
                /\ used' = r.used
                /\ allocated' = r.allocated
                /\ number' = r.number
                /\ IF rstrip0(r.type) = <<>>
                   THEN pc' = "output" /\ UNCHANGED <<is_inuse, pos>>
                   ELSE /\ pc' = "attr"
                        /\ is_inuse' = InUseBit(r.flags)
                        /\ pos' = r.attr_offset
    /\ UNCHANGED <<command, image, i, tree, timeline, out, decoded>>
    /\ UNCHANGED codecvars

\* what one pass of the attribute loop does with the attribute a at the cursor
\* (lines 192-256), as the new values of the variables it assigns
AttrOutcome(a) ==
    LET same == [pc |-> "attr", type |-> a.type, flags |-> a.flags, pos |-> pos,
                 tree |-> tree, timeline |-> timeline, decoded |-> decoded]
        failed == [same EXCEPT !.pc = "error"]
        fname == ResolvePath(TreePut(tree, number, a.filename), a.parent_directory,
                             MarkDeleted(a.filename, is_inuse))
    IN  IF command = "timeline" /\ a.type \notin attribute_types
        THEN failed                                   \* line 195: KeyError
        ELSE IF a.form_code = 0
        THEN IF a.type \in {STANDARD_INFORMATION, FILE_NAME, OBJECT_ID} /\ ~a.content_ok
             THEN failed                              \* lines 210, 217, 241: struct.error
             ELSE IF a.type = FILE_NAME
             THEN [same EXCEPT !.flags = a.fn_flags,
                               !.tree = TreePut(tree, number, a.filename),
                               !.timeline = timeline \o Entries(a, fname),
                               !.decoded = decoded \cup {number},
                               !.pos = pos + a.length]
             ELSE [same EXCEPT !.pos = pos + a.length]
        ELSE IF a.form_code = 1
        THEN [same EXCEPT !.pos = pos + a.length]
        ELSE same

\* lines 189-261: one pass of the attribute loop; when the type read is the
\* end marker the loop ends and i moves on by the allocated size
AttrStep ==
    /\ pc = "attr"
    /\ IF pos >= allocated
       THEN \* data is empty: unpack_from raises struct.error (line 192)
            /\ pc' = "error"
            /\ UNCHANGED <<type, flags, pos, tree, timeline, decoded, i>>
       ELSE LET a == RecordAt(image, i).attrs[pos]
                o == AttrOutcome(a)
            IN  /\ type' = o.type
                /\ flags' = o.flags
                /\ pos' = o.pos
                /\ tree' = o.tree
                /\ timeline' = o.timeline
                /\ decoded' = o.decoded
                /\ IF o.pc = "attr" /\ o.type = TYPE_END
                   THEN pc' = "scan" /\ i' = i + allocated
                   ELSE pc' = o.pc /\ i' = i
    /\ UNCHANGED <<command, image, attr_offset, used, allocated, number, is_inuse, out>>
    /\ UNCHANGED codecvars

\* lines 263-265: after the loop, print the sorted timeline in timeline mode
Output ==
    /\ pc = "output"
    /\ pc' = "done"
    /\ out' = IF command = "timeline" THEN sorted(timeline) ELSE out
    /\ UNCHANGED <<command, image, i, type, attr_offset, flags, used, allocated,
                   number, is_inuse, pos, tree, timeline, decoded>>
    /\ UNCHANGED codecvars

\* every image, in either mode
ScanInit ==
    /\ command \in {"dump", "timeline"}
    /\ image \in StructImages \cup PathImages \cup TimelineImages
    /\ ScanStart

Init == ScanInit /\ CodecInit

Next == ReadRecord \/ AttrStep \/ Output

Spec == Init /\ [][Next]_vars

CodecNext ==
    \/ RoundTrip /\ UNCHANGED scanvars
    \/ DecodePair /\ UNCHANGED scanvars

\* the codec alone: the scan stays at its start, on an empty table
CodecOnlyInit ==
    /\ command = "dump"
    /\ image = <<ZeroSlot>>
    /\ ScanStart
    /\ CodecInit

CodecSpec == CodecOnlyInit /\ [][CodecNext]_vars

\* the structural images alone; the interpreter runs one statement after the
\* other, so a step that can be taken is taken
StructInit ==
    /\ command \in {"dump", "timeline"}
    /\ image \in StructImages
    /\ ScanStart
    /\ CodecInit

FairSpec == StructInit /\ [][Next]_vars /\ WF_vars(Next)

-----------------------------------------------------------------------------
(* Vocabulary of the properties *)

\* the attribute loop is about to decode the attribute cell at the cursor
AtAttr == pc = "attr" /\ pos < allocated
CurRecord == RecordAt(image, i)
CurAttr == CurRecord.attrs[pos]

\* the next pass of the attribute loop decodes a resident $FILE_NAME
FileNameStep ==
    /\ AtAttr
    /\ CurAttr.type = FILE_NAME
    /\ CurAttr.form_code = 0
    /\ CurAttr.content_ok

IsPrefix(s, t) == Len(s) <= Len(t) /\ SubSeq(t, 1, Len(s)) = s
Range(s) == { s[k] : k \in DOMAIN s }

\* the name part of a timeline entry: its description without the event tag
PathOf(e) == SubSeq(e[2], 1, Len(e[2]) - 1)
EventTags == {" created (0x30)", " modified (0x30)", " mft modified (0x30)",
              " accessed (0x30)"}
HasSeparator(path) == \E k \in DOMAIN path : path[k] = "\\"
EndsWith(s, t) == Len(t) <= Len(s) /\ SubSeq(s, Len(s) - Len(t) + 1, Len(s)) = t

\* o holds the entries of t in non-decreasing order of tick, entries of equal
\* tick in the order they have in t
StableSortOf(o, t) ==
    /\ Len(o) = Len(t)
    /\ \A k \in 1..(Len(o) - 1) : o[k][1] <= o[k + 1][1]
    /\ \A key \in { e[1] : e \in Range(o) \cup Range(t) } :
          LET HasKey(e) == e[1] = key
          IN  SelectSeq(o, HasKey) = SelectSeq(t, HasKey)

\* two tick values in the same microsecond
SameMicrosecond(x, y) == x.hi = y.hi /\ x.lo \div 10 = y.lo \div 10

-----------------------------------------------------------------------------
(* The properties *)

\* C1 (as claimed): whenever the first attribute of a record declares length 0
\* (and is not the end marker), the attribute loop of that record ends and the
\* scan is back at the record loop, at the next slot.
C1_ZeroLengthRecovers ==
    (AtAttr /\ pos = attr_offset /\ CurAttr.length = 0 /\ CurAttr.type # TYPE_END)
    ~> (pc = "scan")

\* C2 (as claimed): in either mode, a pass of the attribute loop over an
\* attribute of a type outside the table (resident or non resident) does not
\* fail and moves the cursor on by the attribute's length.
C2_UnknownTypeSkipped ==
    [][ (AtAttr /\ CurAttr.type \notin attribute_types /\ CurAttr.form_code \in {0, 1})
        => (pc' # "error" /\ pos' = pos + CurAttr.length) ]_vars

\* C3: nothing of the timeline is printed before the record loop has ended, and
\* in timeline mode what is then printed is the timeline in non-decreasing order
\* of tick, entries of equal tick in the order they were appended.
C3_TimelineOrdering ==
    /\ pc # "done" => out = <<>>
    /\ (pc = "done" /\ command = "timeline") => StableSortOf(out, timeline)

\* C3 witness: the scan ended in timeline mode on a timeline that was out of
\* order and held two different entries of one tick.
C3_Witness ==
    /\ pc = "done" /\ command = "timeline"
    /\ \E j, k \in DOMAIN timeline : j < k /\ timeline[j][1] > timeline[k][1]
    /\ \E j, k \in DOMAIN timeline :
          j < k /\ timeline[j][1] = timeline[k][1] /\ timeline[j][2] # timeline[k][2]
    /\ out # timeline

\* C4: the timeline only grows, and when the $FILE_NAME of a record names a
\* parent p other than the record itself, the four entries appended carry
\* tree[p] + "\" + name if a $FILE_NAME of record number p has been decoded
\* before, and the bare name otherwise (name with its deleted marker, if any).
C4_SinglePassPath ==
    [][ /\ IsPrefix(timeline, timeline')
        /\ (FileNameStep /\ Mask32(CurAttr.parent_directory) # number) =>
              LET p == Mask32(CurAttr.parent_directory)
                  names == { CurAttr.filename, CurAttr.filename \o <<"*">> }
              IN  /\ Len(timeline') = Len(timeline) + 4
                  /\ \A k \in (Len(timeline) + 1)..Len(timeline') :
                        IF p \in decoded
                        THEN /\ p \in DOMAIN tree
                             /\ \E nm \in names :
                                   PathOf(timeline'[k]) = tree[p] \o <<"\\">> \o nm
                        ELSE PathOf(timeline'[k]) \in names
      ]_vars

\* C4 witness: the scan has ended; one record's path was prefixed with its
\* parent's name, and another record's path stayed bare although a $FILE_NAME
\* of its parent's number was decoded later in the scan.
C4_Witness ==
    /\ pc = "done"
    /\ \E e \in Range(timeline) : HasSeparator(PathOf(e))
    /\ \E k \in DOMAIN image :
          /\ image[k].attrs # <<>>
          /\ LET a == image[k].attrs[1]
             IN  /\ a.type = FILE_NAME
                 /\ Mask32(a.parent_directory) # image[k].number
                 /\ Mask32(a.parent_directory) \in decoded
                 /\ \E e \in Range(timeline) :
                       PathOf(e) \in { a.filename, a.filename \o <<"*">> }

\* C5: the name in each of the four entries appended for a $FILE_NAME ends in
\* "*" exactly when bit 0 of the flags of the record header is clear, whatever
\* the attribute's flags and the $FILE_NAME's own flags are: the entry is the
\* filename, then the marker if the record is not in use, then the event tag,
\* behind the parent prefix if there is one.
C5_DeletedMarker ==
    [][ FileNameStep =>
          LET deleted == CurRecord.flags % 2 = 0
              rendered == IF deleted THEN CurAttr.filename \o <<"*">>
                          ELSE CurAttr.filename
          IN  /\ Len(timeline') = Len(timeline) + 4
              /\ \A k \in (Len(timeline) + 1)..Len(timeline') :
                    LET path == PathOf(timeline'[k])
                    IN  /\ timeline'[k][2][Len(timeline'[k][2])] \in EventTags
                        /\ (path[Len(path)] = "*") <=> deleted
                        /\ EndsWith(path, rendered)
                        /\ (path = rendered \/
                            EndsWith(path, <<"\\">> \o rendered))
      ]_vars

\* C5 witness: the timeline holds a marked name behind a parent prefix, from a
\* record whose header flags have bit 0 clear while the flags of its attribute
\* have it set, and an unmarked name.
C5_Witness ==
    /\ \E e \in Range(timeline) :
          HasSeparator(PathOf(e)) /\ PathOf(e)[Len(PathOf(e))] = "*"
    /\ \E e \in Range(timeline) : PathOf(e)[Len(PathOf(e))] # "*"
    /\ \E k \in DOMAIN image :
          /\ image[k].attrs # <<>>
          /\ image[k].flags % 2 = 0
          /\ image[k].attrs[1].type = FILE_NAME
          /\ image[k].attrs[1].flags % 2 = 1
          /\ image[k].number \in decoded

\* C6: filetime_to_dt(dt_to_filetime(t)) = t for a datetime t of microsecond
\* precision.
C6_RoundTrip == cpc = "roundtrip" => dt_back = dt

\* C6 witness: a round trip of a time before 1970 with a microsecond part.
C6_Witness ==
    /\ cpc = "roundtrip"
    /\ dt.days < 0 /\ dt.microsecond = 999999 /\ dt.second = 59
    /\ BigLess(ft_of_dt, EPOCH_AS_FILETIME)

\* C7 (as claimed): for tick values a < b, filetime_to_dt(a) is before
\* filetime_to_dt(b).
C7_StrictlyMonotonic ==
    (cpc = "decoded" /\ BigLess(ft_a, ft_b)) => DtBefore(dt_a, dt_b)

\* C7 (amended): for tick values a < b, filetime_to_dt(a) is before
\* filetime_to_dt(b), unless a and b lie in the same microsecond, and then the
\* two are equal.
C7_Monotonic ==
    (cpc = "decoded" /\ BigLess(ft_a, ft_b)) =>
        IF SameMicrosecond(ft_a, ft_b) THEN dt_a = dt_b ELSE DtBefore(dt_a, dt_b)

\* C7 witness: two different tick values before 1970 decoded to one datetime.
C7_Witness ==
    /\ cpc = "decoded"
    /\ BigLess(ft_a, ft_b) /\ BigLess(ft_b, EPOCH_AS_FILETIME)
    /\ dt_a = dt_b

\* C8 (as claimed): the attributes of a slot are decoded only if its signature
\* is "FILE".
C8_OnlyFILEDecoded == pc = "attr" => CurRecord.type = SigFILE

\* C9 (as claimed): after the $FILE_NAME of record n is decoded, tree[n] is
\* parent_name + "\" + name if the parent's number was in the tree, and the
\* bare name if not.
C9_TreeStoresResolved ==
    [][ FileNameStep =>
          LET p == Mask32(CurAttr.parent_directory)
          IN  /\ number \in DOMAIN tree'
              /\ tree'[number] = IF p \in DOMAIN tree
                                 THEN tree[p] \o <<"\\">> \o CurAttr.filename
                                 ELSE CurAttr.filename
      ]_vars

\* C10 (as claimed): the attribute loop never decodes an attribute at a cursor
\* at or beyond the used size of the record.
C10_CursorWithinUsed == AtAttr => pos < used

====
